---------------------------- MODULE Spec2Model ----------------------------
(***************************************************************************)
(* A model of dkolbly/go-hdf5's dynamic access layer (src/dynamic.go):     *)
(* DynDatatype and its member accessors, TableReader (MakeTableReader,     *)
(* Read, finalizer), Table.ReadPacketBytes, the primitive unpackers and    *)
(* Unpacker (MakeUnpacker, Unpack).                                        *)
(*                                                                         *)
(* The HDF5 engine (the C library behind the H5T and H5PT calls) is the    *)
(* environment: every engine call's outcome is an input of the action that *)
(* makes the call.  Native memory is a list of allocations; a pointer is   *)
(* an allocation and a byte offset in it.                                  *)
(*                                                                         *)
(* Go's int is modelled at 32 bits, the narrower of the two widths the     *)
(* language allows; at 64 bits the same wrap-around happens at 2^58        *)
(* instead of 2^26.                                                        *)
(***************************************************************************)
EXTENDS Integers, Sequences, FiniteSets, TLC

VARIABLES
    table,    \* the engine's packet table: [nrecords, idx (the engine's read cursor)]
    heap,     \* native allocations, in malloc order: [size, frees]
    rdr,      \* the TableReader, or NoReader before MakeTableReader returned one
    made,     \* the TableReader as MakeTableReader returned it
    ret,      \* what the last call on the reader or the table did and returned
    prev,     \* ret of the last Read before this one that delivered records
    buf,      \* the reader buffer's contents: segments [lo, hi, rec] of record slots
    calls,    \* calls made so far
    pulls,    \* sizes of the pulls of the caller's pull loop, in order
    halted,   \* "no", or how the program stopped: "panic", "crash"
    handles,  \* the engine's type handles, by id: [shape, closes]
    objs,     \* the DynDatatype objects: [id, class]
    tret,     \* what the last call on a DynDatatype did and returned
    unp,      \* the Unpacker MakeUnpacker returned last, or NoUnpacker
    dret      \* what the last primitive unpacker call or Unpack returned

vars == <<table, heap, rdr, made, ret, prev, buf, calls, pulls, halted,
          handles, objs, tret, unp, dret>>

readerVars == <<table, heap, rdr, made, ret, prev, buf, calls, pulls, halted>>
typeVars == <<handles, objs, tret, unp, dret>>

Nil == [nil |-> TRUE]
NoReader == [reader |-> FALSE]
NoUnpacker == [unpacker |-> FALSE]
NoCall == [op |-> "none"]

(***************************************************************************)
(* Bounds of the model.                                                    *)
(***************************************************************************)
MaxReads == 3      \* calls of Read, ReadPacketBytes or a finalizer in one run
MaxPulls == 4      \* iterations of the caller's pull loop
MaxMembers == 3    \* members of a compound type
MaxObjs == 2       \* DynDatatype objects alive in one run
MaxCursor == 16    \* the largest cursor a primitive unpacker is given
MaxHandles == 2    \* Members and MakeUnpacker open no member types from this many handles on

(***************************************************************************)
(* Go's int: a two's-complement machine word.                              *)
(***************************************************************************)
IntMax == (2^30 - 1) + 2^30
IntMin == (-IntMax) - 1

\* a + b in Go's int, for a and b in IntMin..IntMax: wraps around silently
AddWrap(a, b) ==
    IF a >= 0 /\ b >= 0 /\ b > IntMax - a
    THEN (((a - IntMax) - 1) + b) - IntMax - 1
    ELSE IF a < 0 /\ b < 0 /\ b < IntMin - a
         THEN (((a + IntMax) + 1) + b) + IntMax + 1
         ELSE a + b

RECURSIVE MulWrap(_, _)
\* a * b in Go's int, for b >= 0: wraps around silently
MulWrap(a, b) ==
    IF b = 0 THEN 0
    ELSE LET h == MulWrap(a, b \div 2)
             d == AddWrap(h, h)
         IN  IF b % 2 = 1 THEN AddWrap(d, a) ELSE d

\* a / b in Go's int, for b > 0: truncates toward zero
GoDiv(a, b) == IF a >= 0 THEN a \div b ELSE -((-a) \div b)

Min(a, b) == IF a < b THEN a ELSE b

(***************************************************************************)
(* h5err, of the package's error helpers: an error for a negative engine   *)
(* return code, nil otherwise.                                             *)
(***************************************************************************)
h5err(rc) == IF rc < 0 THEN [code |-> rc] ELSE Nil

\* the engine's return codes: success and failure
EngineRc == {0, -1}

\* What a bulk retrieval of n records from record start on returns (H5PTget_next,
\* H5PTread_packets), rc being what it returns when the table holds the records:
\* it fails when the table does not hold them.  n is the int the caller converts
\* to size_t: a negative n reaches the engine as a count of 2^31 or more, which
\* no table of the model holds.
EngineRead(start, n, rc) ==
    IF n = 0 THEN 0
    ELSE IF n < 0 \/ start + n > table.nrecords THEN -1
    ELSE rc

(***************************************************************************)
(* Table.MakeTableReader                                                   *)
(***************************************************************************)
bcap == 1000000
per == 32

\* records one pull of a reader made by MakeTableReader can hold
PerPull == bcap \div per

\* the record counts the engine may report for the table
TableSizes == {0, 1, 23, PerPull - 1, PerPull, PerPull + 1, 40000,
               2 * PerPull, 70000}

MakeTableReader(idxErr, rc, nrec) ==
    /\ halted = "no"
    /\ rdr = NoReader
    /\ ret = NoCall
    /\ IF idxErr
       THEN \* CreateIndex failed
            /\ ret' = [op |-> "MakeTableReader", rdr |-> Nil, err |-> [code |-> -1]]
            /\ UNCHANGED <<rdr, made, heap, table>>
       ELSE IF rc < 0
       THEN \* H5PTget_num_packets failed
            /\ ret' = [op |-> "MakeTableReader", rdr |-> Nil, err |-> h5err(rc)]
            /\ UNCHANGED <<rdr, made, heap, table>>
       ELSE LET r == [bytesPerRecord |-> per,
                      buffer |-> Len(heap) + 1,
                      bufferCap |-> bcap,
                      remain |-> nrec]
            IN  /\ heap' = Append(heap, [size |-> bcap, frees |-> 0])
                /\ table' = [nrecords |-> nrec, idx |-> 0]
                /\ rdr' = r
                /\ made' = r
                /\ ret' = [op |-> "MakeTableReader", rdr |-> r, err |-> Nil]
    /\ UNCHANGED <<prev, buf, calls, pulls, halted>>
    /\ UNCHANGED typeVars

(***************************************************************************)
(* TableReader.Read                                                        *)
(***************************************************************************)
\* the count after the buffer clamp (lines 163-165)
ClampToBuffer(num, r) ==
    IF MulWrap(num, r.bytesPerRecord) > r.bufferCap
    THEN GoDiv(r.bufferCap, r.bytesPerRecord)
    ELSE num

\* the count after the clamp to what is left (lines 166-168)
ClampToRemain(num, r) == IF num > r.remain THEN r.remain ELSE num

\* a Read that counts the records as delivered before it looks at rc
RemainAfter_Early(rem, n, rc) == rem - n

\* a Read that counts one record more than it delivered
RemainAfter_OneMore(rem, n, rc) == IF rc < 0 THEN rem ELSE (rem - n) - 1

\* remain after the engine call returned rc for n records (lines 173-177)
RemainAfter(rem, n, rc) == IF rc < 0 THEN rem ELSE rem - n

\* the views the loop of lines 178-190 builds: view i starts at first + i * stride
MakeVec(n, r) ==
    [num |-> n,
     first |-> [blk |-> r.buffer, off |-> 0],
     stride |-> r.bytesPerRecord,
     len |-> r.bytesPerRecord,
     cap |-> r.bytesPerRecord]

\* vec[i], a DynPacket's Data: a slice header
View(vec, i) ==
    [Data |-> [blk |-> vec.first.blk, off |-> vec.first.off + i * vec.stride],
     Len |-> vec.len,
     Cap |-> vec.cap]

\* the buffer's record slots after the engine wrote n records, from record rec on
Written(segs, n, rec) ==
    LET keep == SelectSeq(segs, LAMBDA s : s.hi > n)
        cut == [k \in 1..Len(keep) |->
                   [lo |-> IF keep[k].lo < n THEN n ELSE keep[k].lo,
                    hi |-> keep[k].hi,
                    rec |-> IF keep[k].lo < n
                            THEN keep[k].rec + (n - keep[k].lo)
                            ELSE keep[k].rec]]
    IN  <<[lo |-> 0, hi |-> n, rec |-> rec]>> \o cut

\* the table record slot s of the buffer holds, or -1 when it was never written
SlotRecord(segs, s) ==
    IF \E k \in 1..Len(segs) : segs[k].lo <= s /\ s < segs[k].hi
    THEN LET k == CHOOSE k \in 1..Len(segs) : segs[k].lo <= s /\ s < segs[k].hi
         IN  segs[k].rec + (s - segs[k].lo)
    ELSE -1

Read(num, rc0, crash) ==
    /\ halted = "no"
    /\ rdr # NoReader
    /\ calls' = calls + 1
    /\ LET n1 == ClampToBuffer(num, rdr)
           n == ClampToRemain(n1, rdr)
           rc == EngineRead(table.idx, n, rc0)
           call == [op |-> "Read", num |-> num, n |-> n, before |-> rdr.remain,
                    first |-> table.idx]
       IN  IF n = 0
           THEN \* EOF: the engine is not asked
                /\ ret' = call @@ [gets |-> 0, rc |-> 0, returned |-> TRUE,
                                   vec |-> Nil, err |-> Nil]
                /\ UNCHANGED <<table, rdr, buf, prev, halted>>
           ELSE IF rc < 0
           THEN \* H5PTget_next failed
                /\ ret' = call @@ [gets |-> 1, rc |-> rc, returned |-> TRUE,
                                   vec |-> Nil, err |-> h5err(rc)]
                /\ rdr' = [rdr EXCEPT !.remain = RemainAfter(rdr.remain, n, rc)]
                /\ UNCHANGED <<table, buf, prev, halted>>
           ELSE IF n < 0
           THEN \* make([]DynPacket, n) panics
                /\ ret' = call @@ [gets |-> 1, rc |-> rc, returned |-> FALSE,
                                   vec |-> Nil, err |-> Nil]
                /\ rdr' = [rdr EXCEPT !.remain = RemainAfter(rdr.remain, n, rc)]
                /\ halted' = "panic"
                /\ UNCHANGED <<table, buf, prev>>
           ELSE /\ ret' = call @@ [gets |-> 1, rc |-> rc, returned |-> TRUE,
                                   vec |-> MakeVec(n, rdr), err |-> Nil]
                /\ rdr' = [rdr EXCEPT !.remain = RemainAfter(rdr.remain, n, rc)]
                /\ table' = [table EXCEPT !.idx = table.idx + n]
                /\ buf' = Written(buf, n, table.idx)
                /\ prev' = IF ret.op = "Read" /\ ret.vec # Nil THEN ret ELSE prev
                \* the engine wrote n records of bytesPerRecord bytes into
                \* heap[rdr.buffer]; past its end the behaviour is undefined
                /\ halted' = IF n * rdr.bytesPerRecord > heap[rdr.buffer].size /\ crash
                             THEN "crash" ELSE "no"
    /\ UNCHANGED <<heap, made>>
    /\ UNCHANGED typeVars

NumsAny == {-1, 0, 1, 10, PerPull, PerPull + 1,
            2^26, 2^26 + 1, 2^27, 2^27 + 40000, IntMax}

\* a caller that asks for any count, against an engine that may fail
ReadAny ==
    /\ calls < MaxReads
    /\ \E num \in NumsAny, rc \in EngineRc, crash \in BOOLEAN :
          Read(num, rc, crash) /\ UNCHANGED pulls

(***************************************************************************)
(* The caller's pull loop: Read until a pull comes back empty, each time   *)
(* asking for at least as many records as the buffer holds; the engine     *)
(* does not fail.                                                          *)
(***************************************************************************)
NumsStream == {PerPull, PerPull + 1, 2^26, 2^27 + 40000, IntMax}

StreamDone == pulls # <<>> /\ pulls[Len(pulls)] = 0

StreamPull ==
    /\ ~StreamDone
    /\ Len(pulls) < MaxPulls
    /\ \E num \in NumsStream, crash \in BOOLEAN :
          /\ Read(num, 0, crash)
          /\ pulls' = Append(pulls, IF ret'.vec = Nil THEN 0 ELSE ret'.vec.num)

(***************************************************************************)
(* TableReader.finalizer                                                   *)
(***************************************************************************)
\* C.free(p): freeing an allocation a second time is undefined behaviour
Free(h, blk) == [h EXCEPT ![blk].frees = h[blk].frees + 1]

ReaderFinalizer(crash) ==
    /\ halted = "no"
    /\ rdr # NoReader
    /\ calls < MaxReads
    /\ calls' = calls + 1
    /\ heap' = Free(heap, rdr.buffer)
    /\ ret' = [op |-> "finalizer", frees |-> heap'[rdr.buffer].frees]
    /\ halted' = IF heap'[rdr.buffer].frees > 1 /\ crash THEN "crash" ELSE "no"
    /\ UNCHANGED <<table, rdr, made, prev, buf, pulls>>
    /\ UNCHANGED typeVars

(***************************************************************************)
(* Table.ReadPacketBytes                                                   *)
(***************************************************************************)
bulkPer == 24
bulkAlloc == 1000000

\* the length of the array type the result is sliced from: [1<<30]byte
ArrayLen == 2^30

BulkCounts == {0, 1, 2, 23, 41666, 41667, 44739243}
BulkStarts == {0, 5}

\* the record counts of the tables ReadPacketBytes is called on
BulkTableSizes == {0, 23, 50000, 44739243 + 5}

\* buf[:nbytes:nbytes] of line 229: a slice, or Nil where the slice expression panics
SliceOf(blk, nbytes) ==
    IF nbytes < 0 \/ nbytes > ArrayLen
    THEN Nil
    ELSE [Data |-> [blk |-> blk, off |-> 0], Len |-> nbytes, Cap |-> nbytes]

ReadPacketBytes(start, count, rc0, crash) ==
    /\ halted = "no"
    /\ calls < MaxReads
    /\ calls' = calls + 1
    /\ LET blk == Len(heap) + 1
           allocd == Append(heap, [size |-> bulkAlloc, frees |-> 0])
           nbytes == MulWrap(count, bulkPer)
           rc == EngineRead(start, count, rc0)
           call == [op |-> "ReadPacketBytes", start |-> start, count |-> count,
                    rc |-> rc, blk |-> blk]
       IN  IF rc < 0
           THEN /\ heap' = Free(allocd, blk)
                /\ ret' = call @@ [returned |-> TRUE, slice |-> Nil]
                /\ UNCHANGED halted
           ELSE /\ heap' = allocd
                \* the engine wrote count records of bulkPer bytes into
                \* heap[blk]; past its end the behaviour is undefined
                /\ IF count * bulkPer > bulkAlloc /\ crash
                   THEN /\ halted' = "crash"
                        /\ ret' = call @@ [returned |-> FALSE, slice |-> Nil]
                   ELSE IF SliceOf(blk, nbytes) = Nil
                   THEN /\ halted' = "panic"
                        /\ ret' = call @@ [returned |-> FALSE, slice |-> Nil]
                   ELSE /\ halted' = "no"
                        /\ ret' = call @@ [returned |-> TRUE,
                                           slice |-> SliceOf(blk, nbytes)]
    /\ UNCHANGED <<table, rdr, made, prev, buf, pulls>>
    /\ UNCHANGED typeVars

(***************************************************************************)
(* The engine's datatypes.  A type's shape is its kind and, for a compound *)
(* type, the kinds of its members in order.                                *)
(***************************************************************************)
Kinds == {"LLONG", "INT", "FLOAT", "STRING", "DOUBLE"}

MemberLists == UNION {[1..n -> Kinds] : n \in 0..MaxMembers}

Shapes == [kind : Kinds, members : {<<>>}]
              \cup [kind : {"COMPOUND"}, members : MemberLists]

T_COMPOUND == "T_COMPOUND"

\* H5Tget_class of a shape
ClassOfKind(kind) ==
    CASE kind = "COMPOUND" -> T_COMPOUND
      [] kind \in {"LLONG", "INT"} -> "T_INTEGER"
      [] kind \in {"FLOAT", "DOUBLE"} -> "T_FLOAT"
      [] OTHER -> "T_STRING"

\* the handle id is one the engine holds open
ValidHandle(id) == id \in 1..Len(handles) /\ handles[id].open

\* H5Tget_nmembers: negative for a handle that is not an open compound type
H5Tget_nmembers(id) ==
    IF ValidHandle(id) /\ handles[id].shape.kind = "COMPOUND"
    THEN Len(handles[id].shape.members)
    ELSE -1

\* H5Tget_member_class: negative for a bad handle or index
H5Tget_member_class(id, idx) ==
    IF H5Tget_nmembers(id) >= 0 /\ idx >= 0 /\ idx < H5Tget_nmembers(id) THEN 1 ELSE -1

\* H5Tget_member_name through C.GoString: "" for the NULL a failure returns
H5Tget_member_name(id, idx) ==
    IF H5Tget_member_class(id, idx) >= 0 THEN <<"member", idx>> ELSE <<>>

\* bytes a value of the kind takes in a packed record
KindSize(kind, ptr) ==
    CASE kind \in {"LLONG", "DOUBLE"} -> 8
      [] kind \in {"INT", "FLOAT"} -> 4
      [] OTHER -> ptr

RECURSIVE PackedOffset(_, _, _)
PackedOffset(members, idx, ptr) ==
    IF idx = 0 THEN 0
    ELSE PackedOffset(members, idx - 1, ptr) + KindSize(members[idx], ptr)

\* H5Tget_member_offset: 0 on failure
H5Tget_member_offset(id, idx, ptr) ==
    IF H5Tget_member_class(id, idx) >= 0
    THEN PackedOffset(handles[id].shape.members, idx, ptr)
    ELSE 0

PtrSizes == {4, 8}

(***************************************************************************)
(* DynDatatype                                                             *)
(***************************************************************************)
dynamic_error(code) == [code |-> code]

\* NewDynDatatype(id), for a handle the engine just opened with the shape
NewDynDatatype(shape) == [id |-> Len(handles) + 1, class |-> ClassOfKind(shape.kind)]

Opened(shape) == [shape |-> shape, open |-> TRUE, closes |-> 0]

\* Datatype.AsDynamic
AsDynamic(shape, copyOk) ==
    /\ halted = "no"
    /\ objs = <<>>
    /\ tret = NoCall
    /\ IF copyOk
       THEN /\ handles' = Append(handles, Opened(shape))
            /\ objs' = Append(objs, NewDynDatatype(shape))
            /\ tret' = [op |-> "AsDynamic", obj |-> Len(objs) + 1]
       ELSE /\ tret' = [op |-> "AsDynamic", obj |-> 0]
            /\ UNCHANGED <<handles, objs>>
    /\ UNCHANGED <<unp, dret>>
    /\ UNCHANGED readerVars

\* DynDatatype.Close: what it returns, for the engine's H5Tclose returning rc
CloseErr(t, rc) == IF t.id > 0 THEN h5err(rc) ELSE Nil

\* the engine's handles after t.Close()
CloseHandles(t, rc) ==
    IF t.id > 0 /\ t.id <= Len(handles)
    THEN [handles EXCEPT ![t.id].closes = handles[t.id].closes + 1,
                         ![t.id].open = handles[t.id].open /\ rc < 0]
    ELSE handles

\* H5Tclose fails on a handle that is not open, and may fail on one that is
CloseRc(t, fail) == IF ValidHandle(t.id) /\ ~fail THEN 0 ELSE -1

Close(o, fail) ==
    /\ halted = "no"
    /\ o \in 1..Len(objs)
    /\ LET t == objs[o]
           rc == CloseRc(t, fail)
       IN  /\ handles' = CloseHandles(t, rc)
           /\ objs' = [objs EXCEPT ![o].id = 0]
           /\ tret' = [op |-> "Close", obj |-> o, class |-> t.class, idBefore |-> t.id,
                       err |-> CloseErr(t, rc)]
    /\ UNCHANGED <<unp, dret>>
    /\ UNCHANGED readerVars

\* DynDatatype.finalizer
Finalizer(o, fail) ==
    /\ halted = "no"
    /\ o \in 1..Len(objs)
    /\ LET t == objs[o]
           rc == CloseRc(t, fail)
       IN  /\ handles' = CloseHandles(t, rc)
           /\ objs' = [objs EXCEPT ![o].id = 0]
           /\ tret' = [op |-> "finalizer", obj |-> o, class |-> t.class, idBefore |-> t.id,
                       err |-> CloseErr(t, rc)]
           /\ halted' = IF CloseErr(t, rc) # Nil THEN "panic" ELSE "no"
    /\ UNCHANGED <<unp, dret>>
    /\ UNCHANGED <<table, heap, rdr, made, ret, prev, buf, calls, pulls>>

\* the indexes a caller may pass an accessor
MemberIdx == -1..MaxMembers

NMembers(o) ==
    /\ halted = "no"
    /\ o \in 1..Len(objs)
    /\ LET t == objs[o]
       IN  tret' = IF t.class # T_COMPOUND
                   THEN [op |-> "NMembers", obj |-> o, class |-> t.class,
                         hasVal |-> FALSE, val |-> 0, err |-> dynamic_error(7301)]
                   ELSE [op |-> "NMembers", obj |-> o, class |-> t.class,
                         hasVal |-> TRUE, val |-> H5Tget_nmembers(t.id), err |-> Nil]
    /\ UNCHANGED <<handles, objs, unp, dret>>
    /\ UNCHANGED readerVars

\* what MemberType(idx) returns first: the error, or Nil on success
MemberTypeErr(t, idx, fail) ==
    IF t.class # T_COMPOUND THEN dynamic_error(7302)
    ELSE IF H5Tget_member_class(t.id, idx) < 0 THEN h5err(-1)
    ELSE IF fail THEN h5err(-1)
    ELSE Nil

MemberType(o, idx, fail) ==
    /\ halted = "no"
    /\ o \in 1..Len(objs)
    /\ LET t == objs[o]
           err == MemberTypeErr(t, idx, fail)
       IN  IF err # Nil
           THEN /\ tret' = [op |-> "MemberType", obj |-> o, class |-> t.class,
                            hasVal |-> FALSE, val |-> 0, err |-> err]
                /\ UNCHANGED <<handles, objs>>
           ELSE LET shape == [kind |-> handles[t.id].shape.members[idx + 1],
                              members |-> <<>>]
                IN  /\ Len(objs) < MaxObjs
                    /\ handles' = Append(handles, Opened(shape))
                    /\ objs' = Append(objs, NewDynDatatype(shape))
                    /\ tret' = [op |-> "MemberType", obj |-> o, class |-> t.class,
                                hasVal |-> TRUE, val |-> Len(objs) + 1, err |-> Nil]
    /\ UNCHANGED <<unp, dret>>
    /\ UNCHANGED readerVars

MemberName(o, idx) ==
    /\ halted = "no"
    /\ o \in 1..Len(objs)
    /\ LET t == objs[o]
       IN  tret' = [op |-> "MemberName", obj |-> o, class |-> t.class,
                    hasVal |-> TRUE, val |-> H5Tget_member_name(t.id, idx), err |-> Nil]
    /\ UNCHANGED <<handles, objs, unp, dret>>
    /\ UNCHANGED readerVars

MemberOffset(o, idx, ptr) ==
    /\ halted = "no"
    /\ o \in 1..Len(objs)
    /\ LET t == objs[o]
       IN  tret' = [op |-> "MemberOffset", obj |-> o, class |-> t.class,
                    hasVal |-> TRUE, val |-> H5Tget_member_offset(t.id, idx, ptr),
                    err |-> Nil]
    /\ UNCHANGED <<handles, objs, unp, dret>>
    /\ UNCHANGED readerVars

RECURSIVE MembersMap(_, _, _, _, _)
\* the loop of Members (lines 121-126) from member i on: m maps each member's
\* name to its new DynDatatype, skipping the member whose MemberType fails
MembersMap(t, i, n, failIdx, acc) ==
    IF i >= n THEN acc
    ELSE IF MemberTypeErr(t, i, i = failIdx) # Nil
         THEN MembersMap(t, i + 1, n, failIdx, acc)
         ELSE MembersMap(t, i + 1, n, failIdx,
                         Append(acc, [name |-> H5Tget_member_name(t.id, i),
                                      kind |-> handles[t.id].shape.members[i + 1]]))

\* the handles the entries of a Members map or an Unpacker's loop opened
OpenedFor(kinds) ==
    [k \in 1..Len(kinds) |-> Opened([kind |-> kinds[k], members |-> <<>>])]

Members(o, failIdx, panicNeg) ==
    /\ halted = "no"
    /\ o \in 1..Len(objs)
    /\ Len(handles) < MaxHandles
    /\ LET t == objs[o]
           n == H5Tget_nmembers(t.id)
           m == MembersMap(t, 0, n, failIdx, <<>>)
           call == [op |-> "Members", obj |-> o, class |-> t.class]
       IN  IF t.class # T_COMPOUND
           THEN /\ tret' = call @@ [hasVal |-> FALSE, val |-> <<>>,
                                    err |-> dynamic_error(7303)]
                /\ UNCHANGED <<handles, halted>>
           ELSE IF n < 0 /\ panicNeg
           THEN \* make(map, n) with a negative n: some runtimes panic
                /\ tret' = call @@ [hasVal |-> FALSE, val |-> <<>>, err |-> Nil]
                /\ halted' = "panic"
                /\ UNCHANGED handles
           ELSE /\ tret' = call @@ [hasVal |-> TRUE, val |-> m, err |-> Nil]
                /\ handles' = handles \o OpenedFor([k \in 1..Len(m) |-> m[k].kind])
                /\ UNCHANGED halted
    /\ UNCHANGED <<objs, unp, dret>>
    /\ UNCHANGED <<table, heap, rdr, made, ret, prev, buf, calls, pulls>>

(***************************************************************************)
(* The primitive unpackers: the value read at p and the next cursor.  A    *)
(* value is its Go type and the place it was read from.                    *)
(***************************************************************************)
integerUnpacker(p) == <<[type |-> "int32", at |-> p], p + 8>>

longUnpacker(p) == <<[type |-> "int64", at |-> p], p + 8>>

floatUnpacker(p) == <<[type |-> "float32", at |-> p], p + 4>>

\* the char pointers a record may hold at p: NULL and a pointer to a C string
CStrs == {0, 1}

\* c_str is the pointer stored at p, ptr is sizeof(void*) of the build
stringUnpacker(p, c_str, ptr) ==
    IF c_str = 0
    THEN <<[type |-> "string", at |-> p, empty |-> TRUE], p + ptr>>
    ELSE <<[type |-> "string", at |-> p, empty |-> FALSE], p + ptr>>

\* a call through a primitiveUnpack function value
CallUnpacker(fn, p, c_str, ptr) ==
    CASE fn = "longUnpacker" -> longUnpacker(p)
      [] fn = "integerUnpacker" -> integerUnpacker(p)
      [] fn = "floatUnpacker" -> floatUnpacker(p)
      [] OTHER -> stringUnpacker(p, c_str, ptr)

UnpackerNames == {"longUnpacker", "integerUnpacker", "floatUnpacker", "stringUnpacker"}

\* one call of a primitive unpacker at cursor p
Decode(fn, p, c_str, ptr) ==
    /\ halted = "no"
    /\ dret' = [op |-> "decode", fn |-> fn, p |-> p, ptr |-> ptr,
                val |-> CallUnpacker(fn, p, c_str, ptr)[1],
                next |-> CallUnpacker(fn, p, c_str, ptr)[2]]
    /\ UNCHANGED <<handles, objs, tret, unp>>
    /\ UNCHANGED readerVars

(***************************************************************************)
(* Unpacker                                                                *)
(***************************************************************************)
\* DynDatatype.equal against one of the package's native types: H5Tequal > 0
equal(kind, native) == kind = native

\* a primitiveUnpacker that has lost its float case
primitiveUnpacker_NoFloat(kind) ==
    CASE equal(kind, "LLONG") -> [fn |-> "longUnpacker"]
      [] equal(kind, "INT") -> [fn |-> "integerUnpacker"]
      [] equal(kind, "STRING") -> [fn |-> "stringUnpacker"]
      [] OTHER -> Nil

\* DynDatatype.primitiveUnpacker, for a member type of the kind
primitiveUnpacker(kind) ==
    CASE equal(kind, "LLONG") -> [fn |-> "longUnpacker"]
      [] equal(kind, "INT") -> [fn |-> "integerUnpacker"]
      [] equal(kind, "FLOAT") -> [fn |-> "floatUnpacker"]
      [] equal(kind, "STRING") -> [fn |-> "stringUnpacker"]
      [] OTHER -> Nil

\* failAt is the index of the member whose MemberType fails, or -1
MakeUnpacker(o, failAt) ==
    /\ halted = "no"
    /\ o \in 1..Len(objs)
    /\ Len(handles) < MaxHandles
    /\ LET t == objs[o]
           n == H5Tget_nmembers(t.id)
           call == [op |-> "MakeUnpacker", obj |-> o, class |-> t.class]
       IN  IF t.class # T_COMPOUND
           THEN /\ tret' = call @@ [hasVal |-> FALSE, err |-> dynamic_error(7304)]
                /\ UNCHANGED <<handles, unp, halted>>
           ELSE IF n < 0
           THEN \* make([]primitiveUnpack, n) panics
                /\ tret' = call @@ [hasVal |-> FALSE, err |-> Nil]
                /\ halted' = "panic"
                /\ UNCHANGED <<handles, unp>>
           ELSE LET members == handles[t.id].shape.members
                    done == IF failAt \in 0..(n - 1) THEN failAt ELSE n
                IN  /\ handles' = handles \o OpenedFor(SubSeq(members, 1, done))
                    /\ IF done < n
                       THEN /\ tret' = call @@ [hasVal |-> FALSE, err |-> h5err(-1)]
                            /\ UNCHANGED unp
                       ELSE /\ tret' = call @@ [hasVal |-> TRUE, err |-> Nil]
                            /\ unp' = [unpackers |->
                                          [i \in 1..n |-> primitiveUnpacker(members[i])],
                                       members |-> members]
                    /\ UNCHANGED halted
    /\ UNCHANGED <<objs, dret>>
    /\ UNCHANGED <<table, heap, rdr, made, ret, prev, buf, calls, pulls>>

RECURSIVE UnpackFrom(_, _, _, _, _, _)
\* the loop of Unpack (lines 316-320) from slot i on, with the cursor at p; c_str
\* is the pointer the record holds wherever a string is decoded
UnpackFrom(us, i, p, c_str, ptr, result) ==
    IF i > Len(us) THEN result
    ELSE IF us[i] # Nil
         THEN UnpackFrom(us, i + 1, CallUnpacker(us[i].fn, p, c_str, ptr)[2], c_str, ptr,
                         Append(result, CallUnpacker(us[i].fn, p, c_str, ptr)[1]))
         ELSE UnpackFrom(us, i + 1, p, c_str, ptr, Append(result, Nil))

Unpack(c_str, ptr) ==
    /\ halted = "no"
    /\ unp # NoUnpacker
    /\ dret' = [op |-> "Unpack", ptr |-> ptr, members |-> unp.members,
                result |-> UnpackFrom(unp.unpackers, 1, 0, c_str, ptr, <<>>)]
    /\ UNCHANGED <<handles, objs, tret, unp>>
    /\ UNCHANGED readerVars

InitRest ==
    /\ heap = <<>>
    /\ rdr = NoReader
    /\ made = NoReader
    /\ ret = NoCall
    /\ prev = NoCall
    /\ buf = <<>>
    /\ calls = 0
    /\ pulls = <<>>
    /\ halted = "no"
    /\ handles = <<>>
    /\ objs = <<>>
    /\ tret = NoCall
    /\ unp = NoUnpacker
    /\ dret = NoCall

\* no reader made yet, no DynDatatype wrapped yet; MakeTableReader learns the
\* table's record count from the engine
Init == table = [nrecords |-> 0, idx |-> 0] /\ InitRest

\* a table of some record count, for ReadPacketBytes
InitBulk == table \in [nrecords : BulkTableSizes, idx : {0}] /\ InitRest

NextReader ==
    \/ \E idxErr \in BOOLEAN, rc \in EngineRc, nrec \in TableSizes :
          MakeTableReader(idxErr, rc, nrec)
    \/ ReadAny

SpecReader == Init /\ [][NextReader]_vars

NextStream ==
    \/ \E idxErr \in BOOLEAN, rc \in EngineRc, nrec \in TableSizes :
          MakeTableReader(idxErr, rc, nrec)
    \/ StreamPull

SpecStream == Init /\ [][NextStream]_vars

NextBulk ==
    \E start \in BulkStarts, count \in BulkCounts, rc \in EngineRc, crash \in BOOLEAN :
        ReadPacketBytes(start, count, rc, crash)

SpecBulk == InitBulk /\ [][NextBulk]_vars

\* the types with at most one member
SmallShapes == {s \in Shapes : Len(s.members) <= 1}

NextRelease ==
    \/ \E shape \in SmallShapes, copyOk \in BOOLEAN : AsDynamic(shape, copyOk)
    \/ \E o \in 1..MaxObjs, idx \in MemberIdx, fail \in BOOLEAN : MemberType(o, idx, fail)
    \/ \E o \in 1..MaxObjs, fail \in BOOLEAN : Close(o, fail)
    \/ \E o \in 1..MaxObjs, fail \in BOOLEAN : Finalizer(o, fail)
    \/ \E idxErr \in BOOLEAN, rc \in EngineRc : MakeTableReader(idxErr, rc, 23)
    \/ \E crash \in BOOLEAN : ReaderFinalizer(crash)

SpecRelease == Init /\ [][NextRelease]_vars

NextType ==
    \/ \E shape \in Shapes, copyOk \in BOOLEAN : AsDynamic(shape, copyOk)
    \/ \E o \in 1..MaxObjs : NMembers(o)
    \/ \E o \in 1..MaxObjs, idx \in MemberIdx, fail \in BOOLEAN : MemberType(o, idx, fail)
    \/ \E o \in 1..MaxObjs, idx \in MemberIdx : MemberName(o, idx)
    \/ \E o \in 1..MaxObjs, idx \in MemberIdx, ptr \in PtrSizes : MemberOffset(o, idx, ptr)
    \/ \E o \in 1..MaxObjs, failIdx \in MemberIdx, panicNeg \in BOOLEAN :
          Members(o, failIdx, panicNeg)
    \/ \E o \in 1..MaxObjs, fail \in BOOLEAN : Close(o, fail)

SpecType == Init /\ [][NextType]_vars

NextUnpack ==
    \/ \E shape \in Shapes, copyOk \in BOOLEAN : AsDynamic(shape, copyOk)
    \/ \E o \in 1..MaxObjs, fail \in BOOLEAN : Close(o, fail)
    \/ \E o \in 1..MaxObjs, failAt \in MemberIdx : MakeUnpacker(o, failAt)
    \/ \E c_str \in CStrs, ptr \in PtrSizes : Unpack(c_str, ptr)

SpecUnpack == Init /\ [][NextUnpack]_vars

NextDecode ==
    \E fn \in UnpackerNames, p \in 0..MaxCursor, c_str \in CStrs, ptr \in PtrSizes :
        Decode(fn, p, c_str, ptr)

SpecDecode == Init /\ [][NextDecode]_vars

(***************************************************************************)
(* Claims about TableReader                                                *)
(***************************************************************************)
CeilDiv(a, b) == (a + b - 1) \div b

RECURSIVE SumSeq(_)
SumSeq(s) == IF s = <<>> THEN 0 ELSE s[1] + SumSeq(Tail(s))

\* C1 (stream exhaustion): once the pull loop has seen its empty pull, it has
\* made exactly ceil(R / floor(C/W)) non-empty pulls before it, of sizes that
\* never increase, and the sizes sum to R, the table's record count.
C1_StreamExhaustion ==
    (StreamDone /\ ret.err = Nil) =>
        LET k == Len(pulls) - 1
            K == made.bufferCap \div made.bytesPerRecord
        IN  /\ k = CeilDiv(made.remain, K)
            /\ \A i \in 1..k : pulls[i] > 0 /\ (i > 1 => pulls[i] <= pulls[i - 1])
            /\ SumSeq(pulls) = made.remain

\* C2 (read clamp): the count n a Read asks the engine for and returns views of
\* is min(requestedCount, floor(bufferCap / recordWidth), remaining), so that
\* n * recordWidth never exceeds bufferCap.
C2_ReadClamp ==
    ret.op = "Read" =>
        /\ ret.n = Min(ret.num, Min(made.bufferCap \div made.bytesPerRecord, ret.before))
        /\ ret.n * made.bytesPerRecord <= made.bufferCap

\* C8 (buffer aliasing): a Read that delivers n records returns n views, view i
\* covering bytes [i * W, (i + 1) * W) of the reader's one buffer, none
\* overlapping another or reaching past bufferCap, and holding record i of the
\* pull; view i of the pull before covers the same bytes, which no longer hold
\* that pull's record.
C8_BufferAliasing ==
    (ret.op = "Read" /\ ret.vec # Nil) =>
        /\ ret.vec.num = ret.n
        /\ \A i \in 0..(ret.n - 1) :
              /\ View(ret.vec, i).Data = [blk |-> rdr.buffer, off |-> i * rdr.bytesPerRecord]
              /\ View(ret.vec, i).Len = rdr.bytesPerRecord
              /\ (i + 1) * rdr.bytesPerRecord <= rdr.bufferCap
              /\ i > 0 => View(ret.vec, i - 1).Data.off + View(ret.vec, i - 1).Len
                              <= View(ret.vec, i).Data.off
              /\ SlotRecord(buf, i) = ret.first + i
        /\ prev.op = "Read" =>
              \A i \in 0..(Min(prev.n, ret.n) - 1) :
                  /\ View(prev.vec, i).Data = View(ret.vec, i).Data
                  /\ SlotRecord(buf, i) # prev.first + i

C10_ReadFailure ==
    ret.op = "Read" =>
        /\ (ret.gets = 1 /\ ret.rc < 0) =>
               /\ ret.returned
               /\ ret.vec = Nil
               /\ ret.err = h5err(ret.rc)
               /\ ret.err # Nil
               /\ rdr.remain = ret.before
        /\ (ret.returned /\ ret.vec = Nil /\ ret.err = Nil) =>
               ret.n = 0 /\ ret.gets = 0

\* a Read on a reader with records left whose engine call failed
C10_Witness ==
    ret.op = "Read" /\ ret.gets = 1 /\ ret.rc < 0 /\ ret.before > 0 /\ ret.num > 0

(***************************************************************************)
(* Claims about release, ReadPacketBytes, the unpackers and DynDatatype    *)
(***************************************************************************)
\* C3 (idempotent release): no engine type handle is closed and no native
\* buffer is freed more than once, and releasing a DynDatatype that was
\* released before returns no error.
C3_IdempotentRelease ==
    /\ \A h \in 1..Len(handles) : handles[h].closes <= 1
    /\ \A b \in 1..Len(heap) : heap[b].frees <= 1
    /\ (tret.op \in {"Close", "finalizer"} /\ tret.idBefore = 0) =>
           tret.err = Nil /\ halted # "panic"

\* C4 (bulk read sizing): for count >= 1, ReadPacketBytes allocates
\* recordWidth * count bytes; when the engine succeeds it returns a region of
\* count * recordWidth bytes that lies inside the allocation, and when the
\* engine fails it frees the allocation and returns nil.
C4_BulkReadSizing ==
    (ret.op = "ReadPacketBytes" /\ ret.count >= 1) =>
        /\ heap[ret.blk].size = bulkPer * ret.count
        /\ ret.rc >= 0 =>
              /\ ret.returned
              /\ ret.slice # Nil
              /\ ret.slice.Len = ret.count * bulkPer
              /\ ret.slice.Data.off + ret.slice.Len <= heap[ret.blk].size
        /\ ret.rc < 0 =>
              /\ ret.returned
              /\ ret.slice = Nil
              /\ heap[ret.blk].frees = 1

\* the width on disk of the value each primitive unpacker decodes
OnDiskWidth(fn, ptr) ==
    CASE fn = "longUnpacker" -> 8
      [] fn = "integerUnpacker" -> 4
      [] fn = "floatUnpacker" -> 4
      [] OTHER -> ptr

\* C5 (primitive decoder advance): each primitive unpacker returns its input
\* cursor plus the width on disk of the value it decodes: 8 for longUnpacker,
\* 4 for integerUnpacker, 4 for floatUnpacker, the pointer width for
\* stringUnpacker.
C5_DecoderAdvance ==
    dret.op = "decode" => dret.next = dret.p + OnDiskWidth(dret.fn, dret.ptr)

\* the kinds that match one of the supported native types, and the Go type
\* each decodes to
Supported == {"LLONG", "INT", "FLOAT", "STRING"}

GoTypeOf(kind) ==
    CASE kind = "LLONG" -> "int64"
      [] kind = "INT" -> "int32"
      [] kind = "FLOAT" -> "float32"
      [] OTHER -> "string"

C7_NonCompoundAccessors ==
    (/\ tret.op \in {"NMembers", "MemberType", "MemberName", "MemberOffset", "Members"}
     /\ tret.class # T_COMPOUND) =>
        /\ tret.err # Nil
        /\ ~tret.hasVal
        /\ halted # "panic"

=============================================================================
